---- MODULE Spec2Model ----
(***************************************************************************)
(* Model of mcp_remote_py: the STDIO <-> remote proxy (proxy.py), the      *)
(* transport selector (remote_transport.py) and the two wire transports    *)
(* (sse_transport.py, http_transport.py) as asyncio tasks.                 *)
(*                                                                         *)
(* Every action resumes one task at the await it is suspended on and runs  *)
(* it to its next suspending await; the synchronous call chain in between  *)
(* (callbacks, nested calls, exception propagation, finally blocks) is in  *)
(* the action.  The callers of the selector are run_proxy itself (during   *)
(* start_background) and afterwards the local->remote pump (send); the     *)
(* selector code they execute is kept as a frame stack `stk` with the      *)
(* suspension point `selPc`.                                               *)
(***************************************************************************)
EXTENDS Integers, Sequences, FiniteSets, TLC

\* ---- program constants
QueueMaxsize == 256
MAX_RETRIES == 3
EndpointWaitTimeoutS == 2

\* ---- bounds of the model
MaxLocal == 2
MaxRemote == 1
MaxOver == 2
MaxLines == 5

Strategies == {"sse-only", "http-only", "sse-first", "http-first"}

\* ---- URLs as urlparse splits them; an empty scheme or netloc is an absent one
NoUrl == [scheme |-> "", netloc |-> "", path |-> ""]

\* the base connection URL given to run_proxy
BaseUrl == [scheme |-> "https", netloc |-> "remote.example", path |-> "/sse"]

\* the `data` of an `endpoint` event: a path, an absolute URL of the same
\* origin, of another host, of another scheme, of another port, or a
\* scheme-relative URL of another host
EndpointValues ==
    { [scheme |-> "", netloc |-> "", path |-> "/messages"],
      [scheme |-> "https", netloc |-> "remote.example", path |-> "/messages"],
      [scheme |-> "https", netloc |-> "other.example", path |-> "/messages"],
      [scheme |-> "http", netloc |-> "remote.example", path |-> "/messages"],
      [scheme |-> "https", netloc |-> "remote.example:8443", path |-> "/messages"],
      [scheme |-> "", netloc |-> "other.example", path |-> "/messages"] }

\* urllib.parse.urljoin(base, value) followed by urlparse
UrlJoin(base, v) ==
    IF v.scheme # "" THEN v
    ELSE IF v.netloc # "" THEN [v EXCEPT !.scheme = base.scheme]
         ELSE [base EXCEPT !.path = v.path]

\* the host of a netloc (urlparse(...).hostname): the part before the port
HostOf(netloc) == IF netloc = "remote.example:8443" THEN "remote.example" ELSE netloc

SameOriginNetlocOnly(base, u) == base.netloc = u.netloc

\* SseRemoteTransport._set_endpoint: `(base.scheme, base.netloc) != (ep.scheme, ep.netloc)`
SameOrigin(base, u) == base.scheme = u.scheme /\ base.netloc = u.netloc

\* ---- decoded JSON values (what json.loads returns).  A value has a Python
\* type `kind`; a dict is described by its keys jsonrpc, method, id, result and
\* error: each is "absent" or carries the type (for jsonrpc: the value) it holds,
\* and result/error are TRUE when the key is present.  A list has its items.
JsonValue(kind, jsonrpc, method, id, result, error, items) ==
    [kind |-> kind, jsonrpc |-> jsonrpc, method |-> method, id |-> id,
     result |-> result, error |-> error, items |-> items]

\* a value that is not a dict: a string, a number, null
JsonScalar(kind) == JsonValue(kind, "absent", "absent", "absent", FALSE, FALSE, <<>>)

JsonList(items) == JsonValue("list", "absent", "absent", "absent", FALSE, FALSE, items)

\* jsonrpc: absent, the string "2.0", another string, the number 2.0
JsonrpcValues == {"absent", "2.0", "1.0", "float"}

MethodTypes == {"absent", "str", "int", "null"}

IdTypes == {"absent", "str", "int", "bool", "float", "null"}

JsonDicts ==
    {JsonValue("dict", j, m, i, r, e, <<>>) :
        j \in JsonrpcValues, m \in MethodTypes, i \in IdTypes,
        r \in BOOLEAN, e \in BOOLEAN}

\* the request {"jsonrpc":"2.0","id":1,"method":"ping"} and the response
\* {"jsonrpc":"2.0","id":1,"result":{}}
PingRequest == JsonValue("dict", "2.0", "str", "int", FALSE, FALSE, <<>>)
PingResponse == JsonValue("dict", "2.0", "absent", "int", TRUE, FALSE, <<>>)

\* {"jsonrpc":"2.0","id":null,"result":{}} and {"hello":"world"}
NullIdResponse == JsonValue("dict", "2.0", "absent", "null", TRUE, FALSE, <<>>)
PlainDict == JsonValue("dict", "absent", "absent", "absent", FALSE, FALSE, <<>>)

\* isinstance(x, str) and isinstance(x, (str, int)) on the type of x: bool is
\* a subclass of int
IsInstanceStr(t) == t = "str"
IsInstanceStrOrInt(t) == t \in {"str", "int", "bool"}

\* _is_jsonrpc_message accepting every dict whose jsonrpc is "2.0"
IsJsonrpcMessageVersionOnly(obj) == obj.kind = "dict" /\ obj.jsonrpc = "2.0"

\* _is_jsonrpc_message
IsJsonrpcMessage(obj) ==
    IF obj.kind # "dict" THEN FALSE
    ELSE IF obj.jsonrpc # "2.0" THEN FALSE
    ELSE IF obj.method # "absent" THEN IsInstanceStr(obj.method)
    ELSE IF obj.id = "absent" THEN FALSE
    ELSE IF ~IsInstanceStrOrInt(obj.id) THEN FALSE
    ELSE obj.result \/ obj.error

\* ---- text on the wire.  A text is what json.loads and urljoin make of it:
\* the JSON value it encodes, a URL reference, text that is neither, or nothing
EmptyText == [t |-> "empty", j |-> JsonScalar("null"), u |-> NoUrl]
OtherText == [t |-> "other", j |-> JsonScalar("null"), u |-> NoUrl]
JsonText(j) == [t |-> "json", j |-> j, u |-> NoUrl]
UrlText(u) == [t |-> "url", j |-> JsonScalar("null"), u |-> u]

\* a line without its terminator: a comment (`:...`), `event:<name>`,
\* `data:<text>`, or a line without one of these prefixes (the blank line is
\* the raw line with no text)
CommentLine == [f |-> "comment", name |-> "", text |-> EmptyText]
EventLine(name) == [f |-> "event", name |-> name, text |-> EmptyText]
DataLine(text) == [f |-> "data", name |-> "", text |-> text]
RawLine(text) == [f |-> "raw", name |-> "", text |-> text]
BlankLine == RawLine(EmptyText)

\* json.loads of fragments joined by "\n": surrounding whitespace is accepted,
\* two JSON texts in a row or other text are not
JsonLoads(data) ==
    LET ne == SelectSeq(data, LAMBDA x : x.t # "empty")
    IN  IF Len(ne) = 1 /\ ne[1].t = "json"
        THEN [ok |-> TRUE, obj |-> ne[1].j]
        ELSE [ok |-> FALSE, obj |-> JsonScalar("null")]

\* the URL reference urljoin sees in the data of an `endpoint` event: text
\* that is not an absolute or scheme-relative URL is a relative path
EndpointRef(data) ==
    IF Len(data) = 1 /\ data[1].t = "url" THEN data[1].u
    ELSE [scheme |-> "", netloc |-> "", path |-> "/other"]

\* ---- iter_sse_events
SseEvent(name, data) == [event |-> name, data |-> data]

\* event_name and data_lines at the start and after every blank line
ParserInit == [name |-> "message", data |-> <<>>]

\* the dispatch at a blank line or at end of stream
SseFlush(st) == IF st.data # <<>> THEN <<SseEvent(st.name, st.data)>> ELSE <<>>

\* one line read by a parser that keeps the event name over a blank line
SseLineNoReset(st, l) ==
    IF l = BlankLine
    THEN [st |-> [st EXCEPT !.data = <<>>], events |-> SseFlush(st)]
    ELSE IF l.f = "comment" THEN [st |-> st, events |-> <<>>]
    ELSE IF l.f = "event"
         THEN [st |-> [st EXCEPT !.name = IF l.name = "" THEN "message" ELSE l.name],
               events |-> <<>>]
    ELSE IF l.f = "data"
         THEN [st |-> [st EXCEPT !.data = Append(@, l.text)], events |-> <<>>]
    ELSE [st |-> st, events |-> <<>>]

\* one pass of the `while True` loop for a line that is not the end of
\* stream: the parser state afterwards and the events yielded
SseLine(st, l) ==
    IF l = BlankLine
    THEN [st |-> ParserInit, events |-> SseFlush(st)]
    ELSE IF l.f = "comment" THEN [st |-> st, events |-> <<>>]
    ELSE IF l.f = "event"
         THEN [st |-> [st EXCEPT !.name = IF l.name = "" THEN "message" ELSE l.name],
               events |-> <<>>]
    ELSE IF l.f = "data"
         THEN [st |-> [st EXCEPT !.data = Append(@, l.text)], events |-> <<>>]
    ELSE [st |-> st, events |-> <<>>]

RECURSIVE IterSseLines(_, _, _)
\* the loop over the lines of a chunk, from parser state st
IterSseLines(lines, st, evs) ==
    IF lines = <<>> THEN [st |-> st, events |-> evs]
    ELSE LET r == SseLine(st, Head(lines))
         IN  IterSseLines(Tail(lines), r.st, evs \o r.events)

\* the events of a whole stream: its lines, then the empty read
IterSseEvents(lines) ==
    LET r == IterSseLines(lines, ParserInit, <<>>)
    IN  r.events \o SseFlush(r.st)

VARIABLES
    strategy,      \* RemoteTransport._strategy
    wire,          \* every wire transport constructed by _make_active, in order
    active,        \* RemoteTransport._active (index into wire)
    runner,        \* every task created for a wire transport's start()
    runnerTask,    \* RemoteTransport._runner_task (index into runner, 0 = None)
    selClosed,     \* RemoteTransport._closed
    switching,     \* RemoteTransport._switching
    lock,          \* RemoteTransport._switch_lock.locked()
    stk,           \* selector coroutine frames of the calling task, outermost first
    selPc,         \* the await the calling task is suspended on inside selector/wire code
    sw,            \* locals of _switch_to: old, old_task, new_kind
    snd,           \* locals of the send in flight: message, retry, attempt, exc
    mainPc,        \* position of run_proxy
    mainExc,       \* exception run_proxy ended with
    closeTask,     \* local `task` of RemoteTransport.close
    l2rPc,         \* position of pump_local_to_remote
    l2rRes,        \* how pump_local_to_remote ended
    r2lPc,         \* position of pump_remote_to_local
    cancelReq,     \* pumps on which run_proxy called cancel()
    remoteClosed,  \* remote_closed event
    localEof,      \* local_eof event
    queue,         \* remote_to_local_queue
    out,           \* messages written to stdout
    accepted,      \* messages put_nowait accepted, in order
    arrived,       \* messages handed to on_remote_message so far
    dropped,       \* messages on_remote_message dropped
    serverMsgs,    \* messages the remote side sends in this run
    localRead,     \* messages read from stdin so far
    handed,        \* messages handed to RemoteTransport.send, in order
    inflight,      \* RemoteTransport.send calls that have not returned or raised
    posts          \* POSTs issued: <<message, wire transport>>

vars == <<strategy, wire, active, runner, runnerTask, selClosed, switching, lock,
          stk, selPc, sw, snd, mainPc, mainExc, closeTask, l2rPc, l2rRes, r2lPc,
          cancelReq, remoteClosed, localEof, queue, out, accepted, arrived,
          dropped, serverMsgs, localRead, handed, inflight, posts>>

\* ---- the state as one record, for the synchronous call chains
Cur ==
    [strategy |-> strategy, wire |-> wire, active |-> active, runner |-> runner,
     runnerTask |-> runnerTask, selClosed |-> selClosed, switching |-> switching,
     lock |-> lock, stk |-> stk, selPc |-> selPc, sw |-> sw, snd |-> snd,
     remoteClosed |-> remoteClosed, queue |-> queue, accepted |-> accepted,
     arrived |-> arrived, dropped |-> dropped, posts |-> posts,
     serverMsgs |-> serverMsgs,
     status |-> "susp", err |-> "none"]

\* ---- remote_transport.py
CanFallback(st) == st \in {"http-first", "sse-first"}

ShouldFallback(exc) == exc \in {"http404", "http405"}

FirstKind(st) == IF st \in {"sse-only", "sse-first"} THEN "sse" ELSE "http"

OtherKind(s) == IF s.wire[s.active].kind = "http" THEN "sse" ELSE "http"

NewWire(kind) ==
    [kind |-> kind, closed |-> FALSE, started |-> FALSE, session |-> "none",
     oncloseCalled |-> FALSE, fired |-> 0, delivered |-> FALSE,
     closedInSwitch |-> FALSE, epReady |-> FALSE, ep |-> NoUrl, gets |-> 0,
     pend |-> ParserInit, buf |-> EmptyText]

MakeActive(s, kind) ==
    [s EXCEPT !.wire = Append(@, NewWire(kind)), !.active = Len(s.wire) + 1]

\* ---- proxy.py callbacks
\* a message from the remote side: its arrival number and the decoded object
Msg(n, v) == [n |-> n, v |-> v]

OnRemoteMessageDropOldest(s, v) ==
    IF Len(s.queue) < QueueMaxsize
    THEN [s EXCEPT !.queue = Append(@, Msg(s.arrived + 1, v)),
                   !.accepted = Append(@, Msg(s.arrived + 1, v)),
                   !.arrived = @ + 1]
    ELSE [s EXCEPT !.queue = Append(Tail(@), Msg(s.arrived + 1, v)),
                   !.accepted = Append(@, Msg(s.arrived + 1, v)),
                   !.arrived = @ + 1]

OnRemoteMessage(s, v) ==
    IF Len(s.queue) < QueueMaxsize
    THEN [s EXCEPT !.queue = Append(@, Msg(s.arrived + 1, v)),
                   !.accepted = Append(@, Msg(s.arrived + 1, v)),
                   !.arrived = @ + 1]
    ELSE [s EXCEPT !.arrived = @ + 1, !.dropped = @ + 1]

\* ---- the remote side.  It writes units in order; a unit is rendered as
\* event-stream lines where it is written to an event stream and as body lines
\* where it is written to a JSON response; `nl` tells whether the last body
\* line ends with a newline.  `ctype` is the Content-Type of its POST responses.
Unit(sse, json, nl) == [sse |-> sse, json |-> json, nl |-> nl]

\* one JSON value sent as a message
MessageUnit(v) == Unit(<<DataLine(JsonText(v)), BlankLine>>, <<RawLine(JsonText(v))>>, TRUE)

ServerScript(ctype, units) == [ctype |-> ctype, units |-> units, sent |-> 0]

\* the remote side has something left to write
ServerHasMore(s) == s.serverMsgs.sent < Len(s.serverMsgs.units)

\* the next unit is taken off the remote side
ServerNext(s) == s.serverMsgs.units[s.serverMsgs.sent + 1]
ServerTake(s) == [s EXCEPT !.serverMsgs.sent = @ + 1]

OnRemoteClose(s, t) ==
    [s EXCEPT !.remoteClosed = TRUE, !.wire[t].delivered = TRUE]

HandleUnderlyingCloseNoGuard(s, t) == OnRemoteClose(s, t)

HandleUnderlyingClose(s, t) ==
    IF s.switching THEN s ELSE OnRemoteClose(s, t)

\* ---- SseRemoteTransport.close / StreamableHttpRemoteTransport.close
\* the part after `await self._session.close()`
WireCloseFinishNoCallback(s, t) == [s EXCEPT !.wire[t].session = "none"]

WireCloseFinish(s, t) ==
    LET s1 == [s EXCEPT !.wire[t].session = "none"]
    IN  IF ~s1.wire[t].oncloseCalled
        THEN HandleUnderlyingClose(
                 [s1 EXCEPT !.wire[t].oncloseCalled = TRUE, !.wire[t].fired = @ + 1], t)
        ELSE s1

\* the part up to `await self._session.close()`; the result's status is
\* "susp" when the close is suspended on the session, "ret" when it returned
WireCloseBegin(s, t) ==
    IF s.wire[t].closed
    THEN [s EXCEPT !.status = "ret"]
    ELSE LET s1 == [s EXCEPT !.wire[t].closed = TRUE,
                             !.wire[t].started = TRUE,
                             !.wire[t].epReady = IF @ \/ s.wire[t].kind = "sse" THEN TRUE ELSE @,
                             !.wire[t].closedInSwitch = s.switching /\ s.sw.old = t]
         IN  IF s1.wire[t].session # "none"
             THEN [s1 EXCEPT !.wire[t].session = "closed", !.status = "susp"]
             ELSE [WireCloseFinish(s1, t) EXCEPT !.status = "ret"]

\* ---- frames
Top(s) == s.stk[Len(s.stk)]

Pop(s) == [s EXCEPT !.stk = SubSeq(@, 1, Len(@) - 1)]

Push(s, f) == [s EXCEPT !.stk = Append(@, f)]

Susp(s, pc) == [s EXCEPT !.selPc = pc, !.status = "susp"]

RunnerDone(r) == r.pc = "done"

\* ---- RemoteTransport._start_active_runner_with_fallback
\* top of the `while True` loop, up to `await asyncio.wait(...)`
SfbEnter(s) ==
    Susp([s EXCEPT !.runner = Append(@, [tr |-> s.active, pc |-> "new",
                                         exc |-> "none", pre |-> FALSE,
                                         late |-> FALSE, onerr |-> 0]),
                   !.runnerTask = Len(s.runner) + 1], "sfb_wait")

\* RemoteTransport.send: the exception leaves send
SendRaise(s, e) ==
    [s EXCEPT !.stk = <<>>, !.selPc = "idle", !.status = "raise", !.err = e]

SendReturn(s) ==
    [s EXCEPT !.stk = <<>>, !.selPc = "idle", !.status = "ret"]

\* the `finally` of _switch_to and the release of `async with self._switch_lock`
SwitchFinally(s) == [s EXCEPT !.switching = FALSE, !.lock = FALSE]

RECURSIVE WireSendBegin(_)

\* _switch_to returned to its caller (its frame is popped): the `continue`
\* of _start_active_runner_with_fallback, or the retry of send
AfterSwitch(s) ==
    IF Top(s) = "sfb"
    THEN SfbEnter(s)
    ELSE WireSendBegin([s EXCEPT !.snd.retry = TRUE, !.snd.retries = @ + 1])

\* _switch_to from `self._active = self._make_active(new_kind)` on
SwInstall(s) ==
    LET s1 == MakeActive(s, s.sw.newKind)
    IN  SfbEnter(Push([s1 EXCEPT !.runnerTask = 0, !.snd.switches = @ + 1], "sfb"))

\* _switch_to without `await asyncio.gather(old_task, ...)`
SwAfterCloseNoGather(s) == SwInstall(s)

\* _switch_to after `await old.transport.close()`
SwAfterClose(s) ==
    IF s.sw.oldTask # 0 THEN Susp(s, "sw_gather") ELSE SwInstall(s)

\* _switch_to inside `async with self._switch_lock`
SwitchBody(s) ==
    IF s.selClosed \/ s.wire[s.active].kind = s.sw.newKind
    THEN AfterSwitch(Pop([s EXCEPT !.lock = FALSE]))
    ELSE LET s1 == [s EXCEPT !.switching = TRUE, !.sw.old = s.active,
                             !.sw.oldTask = s.runnerTask]
             c == WireCloseBegin(s1, s1.sw.old)
         IN  IF c.status = "susp" THEN Susp(c, "sw_close") ELSE SwAfterClose(c)

SwitchTo(s, newKind) ==
    LET s1 == Push([s EXCEPT !.sw.newKind = newKind], "sw")
    IN  IF s1.lock THEN Susp(s1, "sw_lock") ELSE SwitchBody([s1 EXCEPT !.lock = TRUE])

\* the `except Exception as e` of RemoteTransport.send
SendExceptNoRetryGuard(s, e) ==
    IF s.selClosed THEN SendRaise(s, e)
    ELSE IF CanFallback(s.strategy) /\ ShouldFallback(e)
         THEN SwitchTo([s EXCEPT !.snd.trig = TRUE, !.snd.from = s.active], OtherKind(s))
         ELSE SendRaise(s, e)

SendExcept(s, e) ==
    IF s.snd.retry \/ s.selClosed THEN SendRaise(s, e)
    ELSE IF CanFallback(s.strategy) /\ ShouldFallback(e)
         THEN SwitchTo([s EXCEPT !.snd.trig = TRUE, !.snd.from = s.active], OtherKind(s))
         ELSE SendRaise(s, e)

\* a wire transport's send raised e
WireRaise(s, e) ==
    SendExcept([s EXCEPT !.snd.exc = IF @ = "none" THEN e ELSE @,
                         !.snd.wraised = e], e)

WireRaiseUnreported(s, e) == WireRaise(s, e)

\* `self.onerror(e)` followed by the raise, at the end of a wire send
WireRaiseReported(s, e) == WireRaise([s EXCEPT !.snd.onerr = @ + 1], e)

\* StreamableHttpRemoteTransport.send: `except Exception` (non-retryable),
\* the break, and `if last_error: ... raise last_error`
HttpNonRetryable(s, e) == WireRaiseReported([s EXCEPT !.snd.last = e], e)

\* ---- SseRemoteTransport.send
\* after _ensure_endpoint: the POST
SseAfterEndpoint(s) ==
    LET t == s.active IN
    IF s.wire[t].ep = NoUrl THEN WireRaise(s, "runtime")
    ELSE IF s.wire[t].session # "open" THEN WireRaiseReported(s, "runtime")
    ELSE Susp([s EXCEPT !.posts = Append(@, <<s.snd.msg, t, s.wire[t].ep>>)], "ws_post")

\* ---- StreamableHttpRemoteTransport.send
\* one iteration of `for attempt in range(MAX_RETRIES)` up to the POST
HttpAttempt(s) ==
    LET t == s.active IN
    IF s.wire[t].session # "open" /\ s.wire[t].closed
    THEN HttpNonRetryable(s, "closed")
    ELSE Susp([s EXCEPT !.wire[t].session = "open",
                        !.posts = Append(@, <<s.snd.msg, t, BaseUrl>>)], "hs_post")

\* `except (aiohttp.ClientError, asyncio.TimeoutError, OSError)`
HttpRetryable(s, e) ==
    LET s1 == [s EXCEPT !.snd.last = e] IN
    IF s1.wire[s1.active].closed THEN WireRaiseReported(s1, e)
    ELSE IF s1.snd.attempt < MAX_RETRIES - 1 THEN Susp(s1, "hs_sleep")
         ELSE WireRaiseReported(s1, e)

\* wire send after `await self._started.wait()`
WireSendStarted(s) ==
    LET t == s.active IN
    IF s.wire[t].kind = "sse"
    THEN IF s.wire[t].session = "none" THEN WireRaise(s, "runtime")
         ELSE IF s.wire[t].epReady THEN SseAfterEndpoint(s)
              ELSE Susp([s EXCEPT !.snd.waited = 0], "ws_endpoint")
    ELSE HttpAttempt([s EXCEPT !.snd.attempt = 0])

\* RemoteTransport.send at `await self._active.transport.send(message)`.
\* `await self._started.wait()` suspends only when the event is not set; the
\* selector hands a message to a transport only after its start set the event
\* or closed it (SendNeverWaitsForStart), so that wait never suspends.
WireSendBegin(s0) ==
    LET t == s0.active
        s == [s0 EXCEPT !.snd.wt = t,
                        !.snd.attempt = 0, !.snd.waited = 0, !.snd.last = "none",
                        !.snd.onerr = 0, !.snd.wraised = "none"]
    IN  IF s.wire[t].closed THEN WireRaise(s, "closed")
        ELSE IF ~s.wire[t].started THEN Susp(s, "w_started")
             ELSE WireSendStarted(s)

\* ---- _start_active_runner_with_fallback returns / raises
SfbReturn(s) ==
    LET s1 == Pop(s) IN
    IF s1.stk = <<>> THEN [s1 EXCEPT !.selPc = "idle", !.status = "ret"]
    ELSE IF Top(s1) = "send" THEN WireSendBegin(s1)
         ELSE AfterSwitch(Pop(SwitchFinally(s1)))

RECURSIVE SfbRaise(_, _)
SfbRaise(s, e) ==
    LET s1 == Pop(s) IN
    IF s1.stk = <<>> THEN [s1 EXCEPT !.selPc = "idle", !.status = "raise", !.err = e]
    ELSE IF Top(s1) = "send" THEN SendRaise(s1, e)
         ELSE LET s2 == Pop(SwitchFinally(s1))
              IN  IF Top(s2) = "sfb" THEN SfbRaise(s2, e) ELSE SendRaise(s2, e)

\* after `ready.cancel(); await asyncio.gather(ready, ...)`
SfbAfterFailure(s, e) ==
    IF s.selClosed THEN SfbReturn(s)
    ELSE IF CanFallback(s.strategy) /\ ShouldFallback(e)
         THEN SwitchTo(s, OtherKind(s))
         ELSE SfbRaise(s, e)

\* ---- committing a step
SetSel(n) ==
    /\ strategy' = n.strategy
    /\ wire' = n.wire
    /\ active' = n.active
    /\ runner' = n.runner
    /\ runnerTask' = n.runnerTask
    /\ selClosed' = n.selClosed
    /\ switching' = n.switching
    /\ lock' = n.lock
    /\ stk' = n.stk
    /\ selPc' = n.selPc
    /\ sw' = n.sw
    /\ snd' = n.snd
    /\ remoteClosed' = n.remoteClosed
    /\ queue' = n.queue
    /\ accepted' = n.accepted
    /\ arrived' = n.arrived
    /\ dropped' = n.dropped
    /\ posts' = n.posts
    /\ serverMsgs' = n.serverMsgs

\* the selector call of run_proxy (start_background) suspended, returned or raised
CommitMain(n) ==
    /\ SetSel(n)
    /\ mainPc' = CASE n.status = "susp" -> "start_bg"
                   [] n.status = "ret" -> "wait"
                   [] OTHER -> "failed"
    /\ mainExc' = IF n.status = "raise" THEN n.err ELSE mainExc
    \* asyncio.create_task of the two pumps
    /\ l2rPc' = IF n.status = "ret" THEN "read" ELSE l2rPc
    /\ r2lPc' = IF n.status = "ret" THEN "poll" ELSE r2lPc
    /\ UNCHANGED <<closeTask, l2rRes, cancelReq, localEof, out, localRead, handed,
                   inflight>>

\* the selector call of pump_local_to_remote (send) suspended, returned or
\* raised; a raise ends the pump through its `finally: local_eof.set()`
CommitL2R(n) ==
    /\ SetSel(n)
    /\ l2rPc' = CASE n.status = "susp" -> "send"
                  [] n.status = "ret" -> "read"
                  [] OTHER -> "done"
    /\ l2rRes' = IF n.status = "raise" THEN n.err ELSE l2rRes
    /\ localEof' = (localEof \/ n.status = "raise")
    /\ inflight' = IF n.status = "susp" THEN inflight ELSE inflight - 1
    /\ UNCHANGED <<mainPc, mainExc, closeTask, r2lPc, cancelReq, out, localRead,
                   handed>>

Commit(n) == IF l2rPc = "send" THEN CommitL2R(n) ELSE CommitMain(n)

\* a step of a start() task: no task-level position changes
CommitRunner(n) ==
    /\ SetSel(n)
    /\ UNCHANGED <<mainPc, mainExc, closeTask, l2rPc, l2rRes, r2lPc, cancelReq,
                   localEof, out, localRead, handed, inflight>>

\* the task executing selector code may be resumed
SelRunning ==
    \/ mainPc = "start_bg"
    \/ l2rPc = "send" /\ "l2r" \notin cancelReq

\* ---- initial state: run_proxy has constructed RemoteTransport
NoSend == [msg |-> 0, retry |-> FALSE, retries |-> 0, switches |-> 0,
           trig |-> FALSE, from |-> 0, attempt |-> 0, exc |-> "none", fwd |-> 0,
           waited |-> 0, last |-> "none", onerr |-> 0, wraised |-> "none",
           wt |-> 0]

NoSwitch == [old |-> 0, oldTask |-> 0, newKind |-> "none"]

Init ==
    /\ strategy \in Strategies
    /\ wire = <<NewWire(FirstKind(strategy))>>
    /\ active = 1
    /\ runner = <<>>
    /\ runnerTask = 0
    /\ selClosed = FALSE
    /\ switching = FALSE
    /\ lock = FALSE
    /\ stk = <<>>
    /\ selPc = "idle"
    /\ sw = NoSwitch
    /\ snd = NoSend
    /\ mainPc = "init"
    /\ mainExc = "none"
    /\ closeTask = 0
    /\ l2rPc = "none"
    /\ l2rRes = "none"
    /\ r2lPc = "none"
    /\ cancelReq = {}
    /\ remoteClosed = FALSE
    /\ localEof = FALSE
    /\ queue = <<>>
    /\ out = <<>>
    /\ accepted = <<>>
    /\ arrived = 0
    /\ dropped = 0
    /\ serverMsgs = ServerScript("application/json",
                                 [i \in 1..MaxRemote |-> MessageUnit(PingResponse)])
    /\ localRead = 0
    /\ handed = <<>>
    /\ inflight = 0
    /\ posts = <<>>

\* ---- run_proxy
\* `await remote.start_background()` up to its first suspension
MainStart ==
    /\ mainPc = "init"
    /\ CommitMain(IF runnerTask # 0
                  THEN [Cur EXCEPT !.status = "ret"]
                  ELSE SfbEnter(Push(Cur, "sfb")))

\* ---- _start_active_runner_with_fallback: asyncio.wait returned.  The start
\* task was created before the readiness task, so it has taken its first step
\* by the time either of them completes.
SfbWake ==
    /\ SelRunning
    /\ selPc = "sfb_wait"
    /\ runner[runnerTask].pc # "new"
    /\ RunnerDone(runner[runnerTask]) \/ wire[active].started
    /\ IF RunnerDone(runner[runnerTask]) /\ runner[runnerTask].exc # "none"
       THEN Commit(Susp(Cur, "sfb_gather"))
       ELSE Commit(SfbReturn(Cur))

\* `await asyncio.gather(ready, return_exceptions=True)` returned
SfbGatherWake ==
    /\ SelRunning
    /\ selPc = "sfb_gather"
    /\ Commit(SfbAfterFailure(Cur, runner[runnerTask].exc))

\* ---- _switch_to: `await old.transport.close()` returned
SwCloseWake ==
    /\ SelRunning
    /\ selPc = "sw_close"
    /\ Commit(SwAfterClose(WireCloseFinish(Cur, sw.old)))

\* `await asyncio.gather(old_task, return_exceptions=True)` returned
SwGatherWake ==
    /\ SelRunning
    /\ selPc = "sw_gather"
    /\ RunnerDone(runner[sw.oldTask])
    /\ Commit(SwInstall(Cur))

EndpointOnTimeoutNoDefault(w) == [w EXCEPT !.epReady = TRUE]

\* the `except asyncio.TimeoutError` of _ensure_endpoint
EndpointOnTimeout(w) == [w EXCEPT !.ep = BaseUrl, !.epReady = TRUE]

\* ---- SseRemoteTransport._ensure_endpoint: the wait_for returned or timed out
SseEndpointWake ==
    /\ SelRunning
    /\ selPc = "ws_endpoint"
    /\ IF wire[active].epReady
       THEN Commit(SseAfterEndpoint(Cur))
       ELSE /\ snd.waited = EndpointWaitTimeoutS
            /\ Commit(SseAfterEndpoint(
                   [Cur EXCEPT !.wire[active] = EndpointOnTimeout(@)]))

\* a second passes while the send waits in wait_for(self._endpoint_ready.wait())
SseEndpointTick ==
    /\ SelRunning
    /\ selPc = "ws_endpoint"
    /\ ~wire[active].epReady
    /\ snd.waited < EndpointWaitTimeoutS
    /\ Commit(Susp([Cur EXCEPT !.snd.waited = @ + 1], "ws_endpoint"))

\* SseRemoteTransport.send: the POST completed
SsePostDone ==
    /\ SelRunning
    /\ selPc = "ws_post"
    /\ \E o \in {"ok", "http404", "http500", "conn"} :
          IF o = "ok" THEN Commit(SendReturn(Cur))
          ELSE Commit(WireRaiseReported(Cur, o))

\* ---- StreamableHttpRemoteTransport._drain_response and its helpers
HandleMessageObjUnchecked(s, obj) ==
    OnRemoteMessage([s EXCEPT !.snd.fwd = 1], obj)

\* _handle_message_obj
HandleMessageObj(s, obj) ==
    IF ~IsJsonrpcMessage(obj) THEN s
    ELSE OnRemoteMessage([s EXCEPT !.snd.fwd = 1], obj)

RECURSIVE HandleItems(_, _)
\* `for item in obj: self._handle_message_obj(item)`
HandleItems(s, items) ==
    IF items = <<>> THEN s
    ELSE HandleItems(HandleMessageObj(s, Head(items)), Tail(items))

\* _handle_json_bytes
HandleJsonBytes(s, text) ==
    LET d == JsonLoads(<<text>>)
    IN  IF ~d.ok THEN s
        ELSE IF d.obj.kind = "list" THEN HandleItems(s, d.obj.items)
        ELSE HandleMessageObj(s, d.obj)

\* _handle_json_line
HandleJsonLine(s, text) ==
    IF text = EmptyText THEN s ELSE HandleJsonBytes(s, text)

\* what a line is as a JSON body line: a line with an event-stream prefix is
\* text that is not JSON
LineText(l) == IF l.f = "raw" THEN l.text ELSE OtherText

\* `buffer += chunk` for a buffer holding an unterminated line
BufferAdd(buf, text) ==
    IF buf = EmptyText THEN text
    ELSE IF text = EmptyText THEN buf
    ELSE OtherText

RECURSIVE DrainJsonLines(_, _, _)
\* the `while b"\n" in buffer` loop over the body lines of a chunk; the last
\* line stays in the buffer when it has no newline
DrainJsonLines(s, lines, nl) ==
    LET t == s.active IN
    IF lines = <<>> THEN s
    ELSE LET text == BufferAdd(s.wire[t].buf, LineText(Head(lines)))
         IN  IF Len(lines) = 1 /\ ~nl
             THEN [s EXCEPT !.wire[t].buf = text]
             ELSE DrainJsonLines(HandleJsonLine([s EXCEPT !.wire[t].buf = EmptyText], text),
                                 Tail(lines), nl)

\* the body of `async for event in iter_sse_events(resp.content)`
DrainSseEvent(s, ev) ==
    IF ev.event # "message" THEN s
    ELSE LET d == JsonLoads(ev.data)
         IN  IF ~d.ok THEN s ELSE HandleMessageObj(s, d.obj)

RECURSIVE DrainSseEvents(_, _)
DrainSseEvents(s, evs) ==
    IF evs = <<>> THEN s
    ELSE DrainSseEvents(DrainSseEvent(s, Head(evs)), Tail(evs))

IsEventStream(ctype) == ctype = "text/event-stream"

\* one chunk of the response body was read
DrainChunk(s, u) ==
    LET t == s.active IN
    IF IsEventStream(s.serverMsgs.ctype)
    THEN LET r == IterSseLines(u.sse, s.wire[t].pend, <<>>)
         IN  DrainSseEvents([s EXCEPT !.wire[t].pend = r.st], r.events)
    ELSE DrainJsonLines(s, u.json, u.nl)

\* the body ended: the final flush of the parser, or `if buffer.strip()`
DrainEnd(s) ==
    LET t == s.active
        s1 == [s EXCEPT !.wire[t].pend = ParserInit, !.wire[t].buf = EmptyText]
    IN  IF IsEventStream(s.serverMsgs.ctype)
        THEN DrainSseEvents(s1, SseFlush(s.wire[t].pend))
        ELSE IF s.wire[t].buf # EmptyText THEN HandleJsonBytes(s1, s.wire[t].buf)
        ELSE s1

\* ---- StreamableHttpRemoteTransport.send: the POST returned a status or failed
HttpPostDone ==
    /\ SelRunning
    /\ selPc = "hs_post"
    /\ \E o \in {"ok", "http404", "http500", "conn"} :
          CASE o = "ok" -> Commit(Susp([Cur EXCEPT !.snd.fwd = 0,
                                                   !.wire[active].pend = ParserInit,
                                                   !.wire[active].buf = EmptyText],
                                       "hs_drain"))
            [] o = "conn" -> Commit(HttpRetryable(Cur, o))
            [] OTHER -> Commit(HttpNonRetryable(Cur, o))

\* _drain_response: one chunk of the body, the end of the body, or a
\* connection error while the body is read
HttpDrain ==
    /\ SelRunning
    /\ selPc = "hs_drain"
    /\ \E o \in {"msg", "end", "conn"} :
          CASE o = "msg" -> /\ ServerHasMore(Cur)
                            /\ Commit(Susp(DrainChunk(ServerTake(Cur), ServerNext(Cur)),
                                           "hs_drain"))
            [] o = "end" -> Commit(SendReturn(DrainEnd(Cur)))
            [] OTHER -> Commit(HttpRetryable(Cur, "conn"))

\* `await asyncio.sleep(delay)` returned
HttpSleepWake ==
    /\ SelRunning
    /\ selPc = "hs_sleep"
    /\ IF wire[active].session = "open"
       THEN Commit(Susp([Cur EXCEPT !.wire[active].session = "closed"], "hs_sesclose"))
       ELSE Commit(HttpAttempt([Cur EXCEPT !.snd.attempt = @ + 1]))

\* `await self._session.close()` of the retry returned
HttpSesCloseWake ==
    /\ SelRunning
    /\ selPc = "hs_sesclose"
    /\ Commit(HttpAttempt([Cur EXCEPT !.wire[active].session = "none",
                                      !.snd.attempt = @ + 1]))

\* ---- RemoteTransport.send up to its first suspension
SendBegin(s, m) ==
    IF s.selClosed THEN SendRaise(s, "closed")
    ELSE LET s1 == [s EXCEPT !.stk = <<"send">>, !.snd = [NoSend EXCEPT !.msg = m]]
         IN  IF s1.runnerTask # 0 THEN WireSendBegin(s1)
             ELSE SfbEnter(Push(s1, "sfb"))

\* ---- pump_local_to_remote
L2RCanReadPipelined == l2rPc \in {"read", "send"}

\* the pump is at `async for msg in iter_stdin_messages()`
L2RCanRead == l2rPc = "read"

\* a message was read from stdin and handed to remote.send
L2RRead ==
    /\ L2RCanRead
    /\ "l2r" \notin cancelReq
    /\ localRead < MaxLocal
    /\ LET m == localRead + 1
           n == SendBegin(Cur, m)
       IN  /\ SetSel(n)
           /\ localRead' = m
           /\ handed' = Append(handed, m)
           /\ inflight' = IF n.status = "susp" THEN inflight + 1 ELSE inflight
           /\ l2rPc' = CASE n.status = "susp" -> "send"
                         [] n.status = "ret" -> "read"
                         [] OTHER -> "done"
           /\ l2rRes' = IF n.status = "raise" THEN n.err ELSE l2rRes
           /\ localEof' = (localEof \/ n.status = "raise")
    /\ UNCHANGED <<mainPc, mainExc, closeTask, r2lPc, cancelReq, out>>

\* stdin reached end-of-stream
L2REof ==
    /\ l2rPc = "read"
    /\ "l2r" \notin cancelReq
    /\ l2rPc' = "done"
    /\ l2rRes' = "ok"
    /\ localEof' = TRUE
    /\ UNCHANGED <<strategy, wire, active, runner, runnerTask, selClosed, switching,
                   lock, stk, selPc, sw, snd, mainPc, mainExc, closeTask, r2lPc,
                   cancelReq, remoteClosed, queue, out, accepted, arrived, dropped,
                   serverMsgs, localRead, handed, inflight, posts>>

\* a _switch_to frame of the pump is inside `async with self._switch_lock`
InSwitchBody ==
    \E i \in 1..Len(stk) : stk[i] = "sw" /\ ~(i = Len(stk) /\ selPc = "sw_lock")

\* CancelledError is thrown into the pump at the await it is suspended on
L2RCancelled ==
    /\ "l2r" \in cancelReq
    /\ l2rPc \in {"read", "send"}
    /\ wire' = IF l2rPc = "send" /\ selPc = "sw_close"
               THEN [wire EXCEPT ![sw.old].session = "none"]
               ELSE wire
    /\ switching' = IF l2rPc = "send" /\ InSwitchBody THEN FALSE ELSE switching
    /\ lock' = IF l2rPc = "send" /\ InSwitchBody THEN FALSE ELSE lock
    /\ stk' = <<>>
    /\ selPc' = "idle"
    /\ inflight' = IF l2rPc = "send" THEN inflight - 1 ELSE inflight
    /\ l2rPc' = "done"
    /\ l2rRes' = "cancelled"
    /\ localEof' = TRUE
    /\ UNCHANGED <<strategy, active, runner, runnerTask, selClosed, sw, snd, mainPc,
                   mainExc, closeTask, r2lPc, cancelReq, remoteClosed, queue, out,
                   accepted, arrived, dropped, serverMsgs, localRead, handed, posts>>

\* ---- pump_remote_to_local
QueueGetLast(q) == [msg |-> q[Len(q)], rest |-> SubSeq(q, 1, Len(q) - 1)]

\* remote_to_local_queue.get()
QueueGet(q) == [msg |-> Head(q), rest |-> Tail(q)]

r2lUnchanged ==
    UNCHANGED <<strategy, wire, active, runner, runnerTask, selClosed, switching,
                lock, stk, selPc, sw, snd, mainPc, mainExc, closeTask, l2rPc, l2rRes,
                cancelReq, remoteClosed, localEof, accepted, arrived, dropped,
                serverMsgs, localRead, handed, inflight, posts>>

\* the get returned a message; it is written and the flush awaited
R2LGet ==
    /\ r2lPc = "poll"
    /\ "r2l" \notin cancelReq
    /\ queue # <<>>
    /\ LET g == QueueGet(queue)
       IN  /\ queue' = g.rest
           /\ out' = Append(out, g.msg)
    /\ r2lPc' = "flush"
    /\ r2lUnchanged

\* the pump returning on the closed mark alone, without looking at the queue
R2LExitNoDrain ==
    /\ r2lPc = "poll"
    /\ "r2l" \notin cancelReq
    /\ remoteClosed
    /\ r2lPc' = "done"
    /\ UNCHANGED <<queue, out>>
    /\ r2lUnchanged

\* the get timed out with the remote side closed and the queue empty
R2LExit ==
    /\ r2lPc = "poll"
    /\ "r2l" \notin cancelReq
    /\ queue = <<>>
    /\ remoteClosed
    /\ r2lPc' = "done"
    /\ UNCHANGED <<queue, out>>
    /\ r2lUnchanged

\* write_stdout_message returned: back to the top of the loop
R2LFlushed ==
    /\ r2lPc = "flush"
    /\ "r2l" \notin cancelReq
    /\ r2lPc' = IF remoteClosed /\ queue = <<>> THEN "done" ELSE "poll"
    /\ UNCHANGED <<queue, out>>
    /\ r2lUnchanged

R2LCancelled ==
    /\ "r2l" \in cancelReq
    /\ r2lPc \in {"poll", "flush"}
    /\ r2lPc' = "done"
    /\ UNCHANGED <<queue, out>>
    /\ r2lUnchanged

\* ---- run_proxy after the pumps were created
mainUnchanged ==
    UNCHANGED <<strategy, active, runner, switching, lock, stk, selPc, sw, snd,
                mainExc, l2rPc, l2rRes, r2lPc, localEof, queue, out, accepted,
                arrived, dropped, serverMsgs, localRead, handed, inflight, posts>>

\* The pump waiting in `remote_to_local_queue.get()` was woken by a put of the
\* local->remote pump (no event stream is open, so every put is made by a send
\* of that pump): its wake-up was scheduled before that pump completed, hence
\* before the wake-up of run_proxy, and the event loop runs callbacks in order.
\* A pump that comes back from the flush with a message queued takes it without
\* suspending (asyncio.wait_for awaits `get()` inline and `get()` returns at
\* once on a non-empty queue), so it is never cancelled at the poll either.
R2LWakePending ==
    /\ r2lPc = "poll"
    /\ queue # <<>>
    /\ \A k \in 1..Len(runner) : runner[k].pc # "stream"

\* asyncio.wait(FIRST_COMPLETED) returned: cancel the pending pump and enter
\* RemoteTransport.close up to its first suspension
MainPumpDone ==
    /\ mainPc = "wait"
    /\ l2rPc = "done" \/ r2lPc = "done"
    /\ ~R2LWakePending
    /\ cancelReq' = {p \in {"l2r", "r2l"} :
                        IF p = "l2r" THEN l2rPc # "done" ELSE r2lPc # "done"}
    /\ selClosed' = TRUE
    /\ closeTask' = runnerTask
    /\ LET c == WireCloseBegin(Cur, active)
       IN  /\ wire' = c.wire
           /\ remoteClosed' = c.remoteClosed
           /\ mainPc' = IF c.status = "susp" THEN "cl_ses" ELSE "cl_gather"
    /\ UNCHANGED runnerTask
    /\ mainUnchanged

\* `await self._active.transport.close()` returned
MainCloseSes ==
    /\ mainPc = "cl_ses"
    /\ LET c == WireCloseFinish(Cur, active)
       IN  /\ wire' = c.wire
           /\ remoteClosed' = c.remoteClosed
    /\ mainPc' = "cl_gather"
    /\ UNCHANGED <<runnerTask, selClosed, closeTask, cancelReq>>
    /\ mainUnchanged

\* `await asyncio.gather(task, ...)` returned; RemoteTransport.close returns
MainCloseGather ==
    /\ mainPc = "cl_gather"
    /\ closeTask = 0 \/ RunnerDone(runner[closeTask])
    /\ runnerTask' = 0
    /\ mainPc' = "gather"
    /\ UNCHANGED <<wire, remoteClosed, selClosed, closeTask, cancelReq>>
    /\ mainUnchanged

\* `await asyncio.gather(*pending, ...)` returned; run_proxy returns
MainGather ==
    /\ mainPc = "gather"
    /\ l2rPc = "done" /\ r2lPc = "done"
    /\ mainPc' = "done"
    /\ UNCHANGED <<wire, runnerTask, remoteClosed, selClosed, closeTask, cancelReq>>
    /\ mainUnchanged

\* ---- the start() tasks
SetRunner(s, k, pc, e) ==
    [s EXCEPT !.runner[k].pc = pc, !.runner[k].exc = e]

\* start() ending without the `except` clause that calls onerror
RunnerFinallyNoReport(s, k, e) ==
    LET c == WireCloseBegin(s, s.runner[k].tr)
    IN  IF c.status = "susp" THEN SetRunner(c, k, "closing", e)
        ELSE SetRunner(c, k, "done", e)

\* the `except Exception as e: self.onerror(e); raise` and the
\* `finally: await self.close()` of SseRemoteTransport.start
RunnerFinally(s, k, e) ==
    LET s0 == IF e = "none" THEN s ELSE [s EXCEPT !.runner[k].onerr = @ + 1]
        c == WireCloseBegin(s0, s.runner[k].tr)
    IN  IF c.status = "susp" THEN SetRunner(c, k, "closing", e)
        ELSE SetRunner(c, k, "done", e)

\* `if self._session is not None: raise RuntimeError("... already started")`
StartGuard(w) == w.session # "none"

\* first step of start(): up to the GET (sse) or the wait for close (http)
RunnerFirst(k) ==
    /\ runner[k].pc = "new"
    /\ LET t == runner[k].tr
           s == [Cur EXCEPT !.runner[k].late = wire[t].closed]
       IN  IF StartGuard(wire[t])
           THEN CommitRunner(SetRunner(s, k, "done", "started"))
           ELSE IF wire[t].kind = "http"
                THEN CommitRunner(
                         SetRunner([s EXCEPT !.wire[t].session = "open",
                                             !.wire[t].started = TRUE],
                                   k, IF wire[t].closed THEN "done" ELSE "waitclosed",
                                   "none"))
                ELSE CommitRunner(
                         SetRunner([s EXCEPT !.wire[t].session = "open",
                                             !.wire[t].gets = @ + 1],
                                   k, "get", "none"))

\* StreamableHttpRemoteTransport.start: `await self._closed_event.wait()` returned
HttpRunnerWake(k) ==
    /\ runner[k].pc = "waitclosed"
    /\ wire[runner[k].tr].closed
    /\ CommitRunner(SetRunner(Cur, k, "done", "none"))

\* SseRemoteTransport.start: the GET returned a status or failed
SseGetDone(k) ==
    /\ runner[k].pc = "get"
    /\ LET t == runner[k].tr IN
       \E o \in {"ok", "http404", "http500", "conn"} :
          IF o = "ok"
          THEN CommitRunner(SetRunner([Cur EXCEPT !.wire[t].started = TRUE],
                                      k, "stream", "none"))
          ELSE CommitRunner(RunnerFinally([Cur EXCEPT !.runner[k].pre = TRUE], k, o))

\* SseRemoteTransport._set_endpoint applied to the data of an `endpoint` event:
\* the transport afterwards, or the mismatch error
SetEndpoint(w, v) ==
    LET resolved == UrlJoin(BaseUrl, v)
    IN  IF ~SameOrigin(BaseUrl, resolved)
        THEN [ok |-> FALSE, w |-> w]
        ELSE [ok |-> TRUE, w |-> [w EXCEPT !.ep = resolved, !.epReady = TRUE]]

\* the body of `async for event in iter_sse_events(self._resp.content)`
SseHandleEvent(s, k, ev) ==
    LET t == s.runner[k].tr IN
    IF s.wire[t].closed THEN RunnerFinally(s, k, "none")
    ELSE IF ev.event = "endpoint"
         THEN LET r == SetEndpoint(s.wire[t], EndpointRef(ev.data))
              IN  IF r.ok THEN [s EXCEPT !.wire[t] = r.w]
                  ELSE RunnerFinally(s, k, "origin")
    ELSE IF ev.event # "message" THEN s
    ELSE LET d == JsonLoads(ev.data)
         IN  IF ~d.ok THEN s
             ELSE IF ~IsJsonrpcMessage(d.obj) THEN s
             ELSE OnRemoteMessage(s, d.obj)

RECURSIVE SseHandleEvents(_, _, _)
\* the loop over the events the parser yields, until it returns or raises
SseHandleEvents(s, k, evs) ==
    IF evs = <<>> \/ s.runner[k].pc # "stream" THEN s
    ELSE SseHandleEvents(SseHandleEvent(s, k, Head(evs)), k, Tail(evs))

\* the receive loop read a chunk of the stream
SseStreamMessage(k) ==
    /\ runner[k].pc = "stream"
    /\ wire[runner[k].tr].session = "open"
    /\ ServerHasMore(Cur)
    /\ LET t == runner[k].tr
           r == IterSseLines(ServerNext(Cur).sse, wire[t].pend, <<>>)
           s1 == [ServerTake(Cur) EXCEPT !.wire[t].pend = r.st]
       IN  CommitRunner(SseHandleEvents(s1, k, r.events))

\* the receive loop got an `endpoint` event
SseStreamEndpoint(k) ==
    /\ runner[k].pc = "stream"
    /\ wire[runner[k].tr].session = "open"
    /\ wire[runner[k].tr].ep \in {NoUrl, BaseUrl}
    /\ \E v \in EndpointValues :
          CommitRunner(SseHandleEvent(Cur, k, SseEvent("endpoint", <<UrlText(v)>>)))

\* readline returned b"": the parser's final flush, then the loop ends
SseStreamEof(s, k) ==
    LET t == s.runner[k].tr
        s1 == SseHandleEvents([s EXCEPT !.wire[t].pend = ParserInit], k,
                              SseFlush(s.wire[t].pend))
    IN  IF s1.runner[k].pc # "stream" THEN s1 ELSE RunnerFinally(s1, k, "none")

\* the server ended the stream (readline returned b"") or the read failed
SseStreamEnd(k) ==
    /\ runner[k].pc = "stream"
    /\ wire[runner[k].tr].session = "open"
    /\ \E e \in {"none", "conn"} :
          IF e = "none" THEN CommitRunner(SseStreamEof(Cur, k))
          ELSE CommitRunner(RunnerFinally(Cur, k, e))

\* the response/session was closed locally: the pending read ends or fails
SseStreamAbort(k) ==
    /\ runner[k].pc = "stream"
    /\ wire[runner[k].tr].session # "open"
    /\ \E e \in {"none", "conn"} :
          IF e = "none" THEN CommitRunner(SseStreamEof(Cur, k))
          ELSE CommitRunner(RunnerFinally(Cur, k, e))

\* the `await self._session.close()` of the close in `finally` returned
RunnerCloseWake(k) ==
    /\ runner[k].pc = "closing"
    /\ CommitRunner(SetRunner(WireCloseFinish(Cur, runner[k].tr), k, "done",
                              runner[k].exc))

RunnerStep ==
    \E k \in 1..Len(runner) :
        \/ RunnerFirst(k)
        \/ HttpRunnerWake(k)
        \/ SseGetDone(k)
        \/ SseStreamMessage(k)
        \/ SseStreamEndpoint(k)
        \/ SseStreamEnd(k)
        \/ SseStreamAbort(k)
        \/ RunnerCloseWake(k)

Next ==
    \/ MainStart
    \/ SfbWake
    \/ SfbGatherWake
    \/ SwCloseWake
    \/ SwGatherWake
    \/ SseEndpointWake
    \/ SseEndpointTick
    \/ SsePostDone
    \/ HttpPostDone
    \/ HttpDrain
    \/ HttpSleepWake
    \/ HttpSesCloseWake
    \/ L2RRead
    \/ L2REof
    \/ L2RCancelled
    \/ R2LGet
    \/ R2LExit
    \/ R2LFlushed
    \/ R2LCancelled
    \/ MainPumpDone
    \/ MainCloseSes
    \/ MainCloseGather
    \/ MainGather
    \/ RunnerStep

Spec == Init /\ [][Next]_vars

\* a send never finds the active transport open and not yet started
SendNeverWaitsForStart == selPc # "w_started"

TypeOK ==
    /\ strategy \in Strategies
    /\ active \in 1..Len(wire)
    /\ runnerTask \in 0..Len(runner)
    /\ Len(queue) <= QueueMaxsize
    /\ inflight \in 0..1

\* ---- the orchestrator's queue under load: the event-stream transport is
\* open, both pumps run, and the remote side sends more than the queue holds.
\* The receive loop has taken a burst of QueueMaxsize - 1 buffered messages
\* (readline does not suspend on buffered data) before the pump's first get.
QBurst == [i \in 1..(QueueMaxsize - 1) |-> Msg(i, PingResponse)]

QInit ==
    /\ strategy = "sse-only"
    /\ wire = <<[NewWire("sse") EXCEPT !.started = TRUE, !.session = "open", !.gets = 1]>>
    /\ active = 1
    /\ runner = <<[tr |-> 1, pc |-> "stream", exc |-> "none", pre |-> FALSE,
                   late |-> FALSE, onerr |-> 0]>>
    /\ runnerTask = 1
    /\ selClosed = FALSE
    /\ switching = FALSE
    /\ lock = FALSE
    /\ stk = <<>>
    /\ selPc = "idle"
    /\ sw = NoSwitch
    /\ snd = NoSend
    /\ mainPc = "wait"
    /\ mainExc = "none"
    /\ closeTask = 0
    /\ l2rPc = "read"
    /\ l2rRes = "none"
    /\ r2lPc = "poll"
    /\ cancelReq = {}
    /\ remoteClosed = FALSE
    /\ localEof = FALSE
    /\ queue = QBurst
    /\ out = <<>>
    /\ accepted = QBurst
    /\ arrived = QueueMaxsize - 1
    /\ dropped = 0
    /\ serverMsgs = [ServerScript("application/json",
                                  [i \in 1..(QueueMaxsize + MaxOver) |->
                                      MessageUnit(PingResponse)])
                        EXCEPT !.sent = QueueMaxsize - 1]
    /\ localRead = 0
    /\ handed = <<>>
    /\ inflight = 0
    /\ posts = <<>>

QNext ==
    \/ \E k \in 1..Len(runner) : SseStreamMessage(k)
    \/ R2LGet
    \/ R2LFlushed

QSpec == QInit /\ [][QNext]_vars

\* C1: the PendingQueue never holds more than 256 messages, and a message that
\* arrives while it is full is dropped: the queued messages and their order stay
\* as they were, and the step is taken whatever the remote->local pump does.
C1_QueueBoundedDropNewest ==
    /\ [](Len(queue) <= QueueMaxsize)
    /\ [][(arrived' # arrived /\ Len(queue) = QueueMaxsize)
            => (queue' = queue /\ accepted' = accepted /\ dropped' = dropped + 1
                /\ r2lPc' = r2lPc)]_vars
    /\ [][(arrived' # arrived /\ Len(queue) < QueueMaxsize)
            => (queue' = Append(queue, accepted'[Len(accepted')])
                /\ accepted'[Len(accepted')].n = arrived'
                /\ dropped' = dropped)]_vars

C1_Witness == dropped > 0 /\ Len(queue) = QueueMaxsize /\ r2lPc = "flush"

\* C8: what has been written to the local output is a prefix of the accepted
\* messages, the queue holds exactly the accepted messages not yet written, in
\* order, and accepted messages are in remote arrival order.
C8_OutputPrefixOfAccepted ==
    /\ out \o queue = accepted
    /\ \A i \in 1..(Len(accepted) - 1) : accepted[i].n < accepted[i + 1].n

C8_Witness ==
    /\ dropped > 0
    /\ Len(out) > QueueMaxsize
    /\ out[Len(out)].n > Len(out)

\* C9: messages are handed to the selector's send in the order they were read,
\* at most one send is in progress at any time, a send is in progress exactly
\* while the local->remote pump is inside it, and every POST carries the one
\* message being sent.
C9_SendsInOrderNotPipelined ==
    /\ inflight <= 1
    /\ (inflight = 1) <=> (l2rPc = "send")
    /\ handed = [i \in 1..localRead |-> i]
    /\ \A i \in 1..Len(posts) : posts[i][1] <= localRead
    /\ \A i \in 1..(Len(posts) - 1) : posts[i][1] <= posts[i + 1][1]

C9_Witness == localRead = 2 /\ l2rPc = "send" /\ Len(posts) >= 2

\* C5: a close callback of the transport a switch is tearing down, fired while
\* the switch is in progress, is not delivered to the orchestrator: the
\* remote-closed mark is left as it was by that step.
C5_CloseSuppressedDuringSwitch ==
    /\ [](\A t \in 1..Len(wire) : wire[t].closedInSwitch => ~wire[t].delivered)
    /\ [][\A t \in 1..Len(wire) :
            (switching' /\ sw'.old = t /\ wire'[t].fired # wire[t].fired)
                => (remoteClosed' = remoteClosed /\ ~wire'[t].delivered)]_vars

C5_Witness ==
    \E t \in 1..Len(wire) :
        wire[t].closedInSwitch /\ wire[t].fired = 1 /\ ~remoteClosed

\* C6: the close callback of a wire transport fires at most once over its
\* lifetime, however many times close is called, and a transport that a switch
\* has replaced has fired it exactly once.
C6_CloseCallbackOnce ==
    \A t \in 1..Len(wire) :
        /\ wire[t].fired <= 1
        /\ wire[t].oncloseCalled <=> (wire[t].fired = 1)
        /\ (t < Len(wire)) => (wire[t].fired = 1)

\* a replaced event-stream transport whose receive loop ended by itself: both
\* the loop's cleanup and the switch called close on it
C6_Witness ==
    /\ Len(wire) >= 2
    /\ wire[1].kind = "sse"
    /\ wire[1].fired = 1
    /\ \E k \in 1..Len(runner) : runner[k].tr = 1 /\ runner[k].pc = "done"
    /\ wire[2].started

\* the steps the program takes without new input: every task step whose awaited
\* event has happened, and the completion of a request already issued.  What is
\* left out is the local side's next line or end-of-stream and what the server
\* sends, or does not send, on an open event stream.
ProgStep ==
    \/ SfbWake \/ SfbGatherWake \/ SwCloseWake \/ SwGatherWake
    \/ SseEndpointWake \/ SseEndpointTick \/ SsePostDone \/ HttpPostDone \/ HttpDrain
    \/ HttpSleepWake \/ HttpSesCloseWake
    \/ L2RCancelled \/ R2LGet \/ R2LExit \/ R2LFlushed \/ R2LCancelled
    \/ MainPumpDone \/ MainCloseSes \/ MainCloseGather \/ MainGather
    \/ \E k \in 1..Len(runner) :
          \/ RunnerFirst(k) \/ HttpRunnerWake(k) \/ SseGetDone(k)
          \/ SseStreamAbort(k) \/ RunnerCloseWake(k)

\* C10: the pump that finishes first makes run_proxy cancel the other pump and
\* close the selector; run_proxy returns only after both pumps have settled,
\* with the selector closed; and once a pump has finished run_proxy has
\* returned or the program can take a further step towards returning without
\* waiting for anything the server or the local side may never send.
C10_ShutdownCompletes ==
    /\ mainPc = "done" => (selClosed /\ l2rPc = "done" /\ r2lPc = "done")
    /\ mainPc \in {"cl_ses", "cl_gather", "gather"} =>
          /\ selClosed
          /\ l2rPc = "done" \/ "l2r" \in cancelReq
          /\ r2lPc = "done" \/ "r2l" \in cancelReq
    /\ (mainPc \in {"wait", "cl_ses", "cl_gather", "gather"}
          /\ (l2rPc = "done" \/ r2lPc = "done")) => ENABLED ProgStep

\* C7: a start attempted on a wire transport after its close was requested
\* fails at once with an error, without opening a session or issuing the GET;
\* and a send handed to a closed selector or a closed active transport raises
\* at once without issuing a POST.
C7_UseAfterCloseFails ==
    /\ [](\A k \in 1..Len(runner) :
            runner[k].late => (runner[k].pc = "done" /\ runner[k].exc # "none"))
    /\ [][\A k \in 1..Len(runner) :
            (runner[k].pc = "new" /\ runner'[k].pc # "new" /\ wire[runner[k].tr].closed)
                => (/\ wire'[runner[k].tr].session = wire[runner[k].tr].session
                    /\ wire'[runner[k].tr].gets = wire[runner[k].tr].gets)]_vars
    /\ [][(localRead' # localRead /\ (selClosed \/ wire[active].closed))
            => (l2rPc' = "done" /\ l2rRes' = "closed" /\ posts' = posts)]_vars

\* C4: start_background never returns success while the transport whose start
\* failed before its stream opened is the active one, and a fallback-eligible
\* start failure under a "-first" strategy is answered by closing the failed
\* transport and installing a fresh one of the other kind.
C4_StartFallbackNoFalseSuccess ==
    /\ [][(mainPc = "start_bg" /\ mainPc' = "wait")
            => ~(\E k \in 1..Len(runner') :
                    runner'[k].tr = active' /\ runner'[k].pre)]_vars
    /\ [][(mainPc = "start_bg" /\ selPc = "sfb_gather" /\ selPc' # "sfb_gather"
             /\ CanFallback(strategy) /\ ShouldFallback(runner[runnerTask].exc)
             /\ runner[runnerTask].pre)
            => (/\ wire'[active].closed
                /\ switching' \/ wire'[active'].kind = OtherKind(Cur)
                /\ mainPc' = "start_bg")]_vars

\* C3: under the "-only" strategies there is one transport, of the configured
\* kind, no switch is ever in progress, a start that failed is reported by
\* start_background with the start's own error, and a send that failed ends the
\* local->remote pump with the send's own error.
C3_OnlyStrategiesNeverSwitch ==
    strategy \in {"sse-only", "http-only"} =>
        /\ Len(wire) = 1 /\ active = 1
        /\ wire[1].kind = FirstKind(strategy)
        /\ ~switching /\ ~lock /\ snd.switches = 0 /\ ~snd.retry
        /\ \A k \in 1..Len(runner) :
              runner[k].pre => (mainPc \in {"start_bg", "failed"}
                                /\ (mainPc = "failed" => mainExc = runner[k].exc))
        /\ snd.exc # "none" => (l2rPc = "done" /\ l2rRes = snd.exc)

\* the last selector send met a fallback-eligible failure on the request
\* transport under "http-first", with the selector not closed
C2_Triggered ==
    /\ strategy = "http-first"
    /\ snd.trig
    /\ wire[snd.from].kind = "http"

C11_FallbackExhaustedTerminates ==
    /\ selPc # "sw_lock"
    /\ snd.switches <= 1
    /\ Len(wire) <= localRead + 2

\* C12: a send on an open event-stream transport that has seen no `endpoint`
\* event waits no longer than the endpoint timeout; when the timeout expires
\* it stores the base URL as Endpoint and issues its POST there; and a send
\* starts waiting only if the transport's endpoint is not yet settled, so no
\* later send on that transport waits again.
C12_EndpointTimeoutDefaultsToBase ==
    /\ [](snd.waited <= EndpointWaitTimeoutS)
    /\ [][(/\ selPc = "ws_endpoint" /\ selPc' # "ws_endpoint"
           /\ ~wire[active].epReady /\ wire[active].session = "open"
           /\ l2rRes' # "cancelled")
            => (/\ snd.waited = EndpointWaitTimeoutS
                /\ wire'[active].ep = BaseUrl
                /\ posts' = Append(posts, <<snd.msg, active, BaseUrl>>)
                /\ selPc' = "ws_post")]_vars
    /\ [][(selPc # "ws_endpoint" /\ selPc' = "ws_endpoint")
            => (~wire'[active'].epReady /\ wire'[active'].ep = NoUrl)]_vars
    /\ [](\A i \in 1..Len(posts) :
            (wire[posts[i][2]].kind = "sse" /\ wire[posts[i][2]].ep = BaseUrl)
                => posts[i][3] = BaseUrl)

\* two messages were posted to the base URL of one event-stream transport that
\* never got an `endpoint` event; the second send did not wait
C12_Witness ==
    /\ Len(posts) >= 2
    /\ \E t \in 1..Len(wire) :
          /\ wire[t].kind = "sse"
          /\ posts[Len(posts) - 1] = <<1, t, BaseUrl>>
          /\ posts[Len(posts)] = <<2, t, BaseUrl>>
    /\ snd.waited = 0

\* C13: a stored Endpoint, and the target of every POST, has the scheme and
\* the host of the base URL; an `endpoint` event that fails the origin check
\* leaves the stored Endpoint as it was, is reported to the error callback
\* once, fails the start task and closes the transport.
C13_EndpointSameOrigin ==
    /\ [](\A t \in 1..Len(wire) :
            wire[t].ep # NoUrl =>
                /\ wire[t].ep.scheme = BaseUrl.scheme
                /\ HostOf(wire[t].ep.netloc) = HostOf(BaseUrl.netloc))
    /\ [](\A i \in 1..Len(posts) :
            /\ posts[i][3].scheme = BaseUrl.scheme
            /\ HostOf(posts[i][3].netloc) = HostOf(BaseUrl.netloc))
    /\ [][\A k \in 1..Len(runner) :
            (runner[k].exc # "origin" /\ runner'[k].exc = "origin")
                => (/\ wire'[runner[k].tr].ep = wire[runner[k].tr].ep
                    /\ runner'[k].onerr = 1
                    /\ runner'[k].pc \in {"closing", "done"}
                    /\ wire'[runner[k].tr].closed)]_vars

\* an endpoint event of a foreign origin arrived after the base URL had been
\* stored by the timeout: the start task failed and the Endpoint is unchanged
C13_Witness ==
    \E k \in 1..Len(runner) :
        /\ runner[k].exc = "origin" /\ runner[k].pc = "done"
        /\ wire[runner[k].tr].closed
        /\ wire[runner[k].tr].ep = BaseUrl
        /\ \E i \in 1..Len(posts) : posts[i][2] = runner[k].tr

\* the POSTs of message m issued on wire transport t
PostCount(m, t) ==
    Cardinality({i \in 1..Len(posts) : posts[i][1] = m /\ posts[i][2] = t})

\* the selector is inside the attempt loop of a request-transport send
InHttpSend == selPc \in {"hs_post", "hs_drain", "hs_sleep", "hs_sesclose"}

\* the attempt loop of a request-transport send: at most MAX_RETRIES POSTs of
\* a message; a further attempt is pending only after a retryable failure with
\* attempts left and the transport open; a retryable failure ends the send
\* only when the attempts are used up or the transport is closed; a
\* non-retryable failure ends it with no further POST, reported once.
C14_AttemptLoop ==
    /\ [](\A t \in 1..Len(wire) : \A m \in 1..MaxLocal :
            wire[t].kind = "http" => PostCount(m, t) <= MAX_RETRIES)
    /\ [](InHttpSend =>
            /\ snd.attempt \in 0..(MAX_RETRIES - 1)
            /\ PostCount(snd.msg, active) = snd.attempt + 1)
    /\ [](selPc \in {"hs_sleep", "hs_sesclose"} =>
            (snd.last = "conn" /\ snd.attempt < MAX_RETRIES - 1))
    /\ [][(selPc \in {"hs_post", "hs_drain"} /\ selPc' = "hs_sleep")
            => (~wire[active].closed /\ snd'.last = "conn")]_vars
    /\ [][(selPc \in {"hs_post", "hs_drain"} /\ snd'.wraised = "conn")
            => (wire[active].closed \/ snd.attempt = MAX_RETRIES - 1)]_vars
    /\ [][(selPc = "hs_post" /\ snd'.wraised \in {"http404", "http500"})
            => (posts' = posts /\ snd'.onerr = 1 /\ snd'.last = snd'.wraised)]_vars
    /\ [](snd.onerr <= 1)

\* the last wire send was a request-transport send and raised
HttpSendFailed ==
    /\ snd.wt # 0
    /\ wire[snd.wt].kind = "http"
    /\ snd.wraised # "none"

\* C14: every request-transport send makes at least one and at
\* most three POST attempts, under the rules of the attempt loop, and whenever
\* it fails the error it raises is the last error and has been passed to the
\* error callback exactly once.
C14_EverySendAttemptsAndReports ==
    /\ C14_AttemptLoop
    /\ [](HttpSendFailed =>
            /\ PostCount(snd.msg, snd.wt) \in 1..MAX_RETRIES
            /\ snd.onerr = 1
            /\ snd.wraised = snd.last)

\* three attempts failed with a connection error: the send raised it after
\* reporting it once
C14_Witness ==
    /\ HttpSendFailed
    /\ PostCount(snd.msg, snd.wt) = MAX_RETRIES
    /\ snd.wraised = "conn" /\ snd.onerr = 1

\* ---- the receive paths: a started proxy whose remote side writes one unit,
\* drawn from every JSON value under the plain framings and from sample values
\* under the other framings
SampleValues ==
    {PingResponse, PingRequest, NullIdResponse, PlainDict, JsonScalar("str")}

SampleLists ==
    {JsonList(<<>>), JsonList(<<PingResponse>>),
     JsonList(<<PlainDict, PingResponse, JsonScalar("int"), PingRequest>>),
     JsonList(<<JsonList(<<PingResponse>>)>>)}

EventNames == {"", "message", "endpoint", "ping", "keepalive", "custom"}

\* a unit written as an event of the given name (no `event:` line for "")
EventUnit(name, text, nl) ==
    Unit(IF name = "" THEN <<DataLine(text), BlankLine>>
         ELSE <<EventLine(name), DataLine(text), BlankLine>>,
         <<RawLine(text)>>, nl)

RUnits ==
    {MessageUnit(v) : v \in JsonDicts \cup {JsonScalar("str"), JsonScalar("null")}}
    \cup {EventUnit(n, JsonText(v), nl) :
             n \in EventNames, v \in SampleValues \cup SampleLists, nl \in BOOLEAN}
    \cup {EventUnit(n, t, nl) :
             n \in EventNames, t \in {OtherText, EmptyText}, nl \in BOOLEAN}
    \cup {EventUnit("endpoint", UrlText(u), TRUE) : u \in EndpointValues}
    \cup {Unit(<<DataLine(JsonText(PingResponse)), DataLine(JsonText(PingResponse)),
                 BlankLine>>,
               <<RawLine(JsonText(PingResponse)), BlankLine, RawLine(OtherText),
                 RawLine(JsonText(PingRequest))>>, nl) : nl \in BOOLEAN}

ContentTypes == {"application/json", "text/event-stream"}

\* a wire transport whose start() has opened it
StartedWire(kind) ==
    [NewWire(kind) EXCEPT !.started = TRUE, !.session = "open",
                          !.gets = IF kind = "sse" THEN 1 ELSE 0]

StartedRunner(kind) ==
    [tr |-> 1, pc |-> IF kind = "sse" THEN "stream" ELSE "waitclosed",
     exc |-> "none", pre |-> FALSE, late |-> FALSE, onerr |-> 0]

\* run_proxy after start_background returned and the pumps were created
StartedInit(st, script) ==
    /\ strategy = st
    /\ wire = <<StartedWire(FirstKind(st))>>
    /\ active = 1
    /\ runner = <<StartedRunner(FirstKind(st))>>
    /\ runnerTask = 1
    /\ selClosed = FALSE
    /\ switching = FALSE
    /\ lock = FALSE
    /\ stk = <<>>
    /\ selPc = "idle"
    /\ sw = NoSwitch
    /\ snd = NoSend
    /\ mainPc = "wait"
    /\ mainExc = "none"
    /\ closeTask = 0
    /\ l2rPc = "read"
    /\ l2rRes = "none"
    /\ r2lPc = "poll"
    /\ cancelReq = {}
    /\ remoteClosed = FALSE
    /\ localEof = FALSE
    /\ queue = <<>>
    /\ out = <<>>
    /\ accepted = <<>>
    /\ arrived = 0
    /\ dropped = 0
    /\ serverMsgs = script
    /\ localRead = 0
    /\ handed = <<>>
    /\ inflight = 0
    /\ posts = <<>>

RInit ==
    \E st \in {"sse-only", "http-only"}, c \in ContentTypes, u \in RUnits :
        StartedInit(st, ServerScript(c, <<u>>))

RNext ==
    \/ \E k \in 1..Len(runner) : SseStreamMessage(k)
    \/ \E k \in 1..Len(runner) : SseStreamEnd(k)
    \/ L2RRead
    \/ HttpPostDone
    \/ HttpDrain
    \/ R2LGet
    \/ R2LFlushed

RSpec == RInit /\ [][RNext]_vars

\* the unit the remote side wrote first, and the JSON value it carries when it
\* is one value sent as a message
FirstUnit == serverMsgs.units[1]
FirstValue == FirstUnit.json[1].text.j
FirstIsPlain ==
    \E v \in JsonDicts \cup {JsonScalar("str"), JsonScalar("null")} :
        FirstUnit = MessageUnit(v)

\* the receive path has read the first unit (and with it applied the validator)
FirstReceived == serverMsgs.sent >= 1

\* the unit is read under event-stream framing
SseFraming == strategy = "sse-only" \/ IsEventStream(serverMsgs.ctype)

LacksVersion(v) == v.kind # "dict" \/ v.jsonrpc # "2.0"
IsRequest(v) == v.method = "str"
IsResponse(v) == v.id \in {"str", "int"} /\ (v.result \/ v.error)

\* C16 (as stated): a value lacking jsonrpc "2.0", or with id missing or null
\* on a response, or with neither result nor error, is rejected by the validator
\* (here: is not forwarded by the receive path that applied the validator).
C16_RejectsAsStated ==
    (FirstReceived /\ FirstIsPlain
     /\ (\/ LacksVersion(FirstValue)
         \/ ~IsRequest(FirstValue) /\ FirstValue.id \in {"absent", "null"}
         \/ ~FirstValue.result /\ ~FirstValue.error))
    => arrived = 0 /\ ~IsJsonrpcMessage(FirstValue)

\* C16 (amended): a value lacking jsonrpc "2.0" is rejected, and a value that
\* carries no string-typed method is rejected when its id is missing or null
\* or when it has neither result nor error.
C16_RejectsNonMessages ==
    (FirstReceived /\ FirstIsPlain
     /\ (\/ LacksVersion(FirstValue)
         \/ ~IsRequest(FirstValue) /\ FirstValue.id \in {"absent", "null"}
         \/ ~IsRequest(FirstValue) /\ ~FirstValue.result /\ ~FirstValue.error))
    => arrived = 0 /\ ~IsJsonrpcMessage(FirstValue)

C16_Witness ==
    /\ FirstReceived
    /\ FirstUnit = MessageUnit(NullIdResponse)
    /\ arrived = 0
    /\ strategy = "http-only" /\ selPc = "hs_drain"

\* C17: the validator accepts a decoded value exactly when it is an object
\* with jsonrpc "2.0" that is a request/notification (string-typed method) or
\* a response (id of string or integer type and result or error), whatever the
\* type of a method key a response also carries.
C17_AcceptsExactlyMessages ==
    (FirstReceived /\ FirstIsPlain)
    => LET v == FirstValue
           message == ~LacksVersion(v) /\ (IsRequest(v) \/ IsResponse(v))
       IN  /\ IsJsonrpcMessage(v) <=> message
           /\ arrived = 1 <=> message

\* no failure of a receive loop or of the send in this step
NoReceiveFailure ==
    /\ \A k \in DOMAIN runner : runner'[k].pc = runner[k].pc /\ runner'[k].exc = "none"
    /\ l2rRes' = l2rRes
    /\ selPc = "hs_drain" => selPc' = "hs_drain" /\ l2rPc' = "send"

\* the step read a unit from the remote side
UnitRead == serverMsgs'.sent = serverMsgs.sent + 1

\* the unit read in this step
ReadUnit == serverMsgs.units[serverMsgs.sent + 1]

\* the unit holds nothing to forward: a named event under event-stream
\* framing, text that is not JSON, or one value the validator rejects
NothingToForward(u) ==
    \/ SseFraming /\ \E n \in EventNames \ {"", "message"}, t \in {x.text : x \in {u.sse[2]}},
                        nl \in BOOLEAN : u = EventUnit(n, t, nl)
    \/ \E n \in EventNames, t \in {OtherText, EmptyText}, nl \in BOOLEAN :
           u = EventUnit(n, t, nl)
    \/ \E v \in JsonDicts \cup {JsonScalar("str"), JsonScalar("null")} :
           u = MessageUnit(v) /\ ~IsJsonrpcMessage(v)

\* the step made an endpoint event of a foreign origin end the receive loop
OriginFailure == \E k \in DOMAIN runner : runner'[k].exc = "origin"

\* C15 (as stated): every value handed to the message callback passes the
\* validator under every framing; events of another name than "message" and
\* payloads that are not JSON or not valid are not forwarded, and reading them
\* never makes the receive loop or the send fail.
C15_DiscardsNeverFail ==
    /\ [](\A i \in 1..Len(accepted) : IsJsonrpcMessage(accepted[i].v))
    /\ [][(UnitRead /\ NothingToForward(ReadUnit))
            => (arrived' = arrived /\ queue' = queue)]_vars
    /\ [][UnitRead => NoReceiveFailure]_vars

\* C15 (amended): as above, except that an `endpoint` event of a foreign
\* origin ends the receive loop of the event-stream transport.
C15_ForwardedPassValidator ==
    /\ [](\A i \in 1..Len(accepted) : IsJsonrpcMessage(accepted[i].v))
    /\ [][(UnitRead /\ NothingToForward(ReadUnit))
            => (arrived' = arrived /\ queue' = queue)]_vars
    /\ [][(UnitRead /\ ~OriginFailure) => NoReceiveFailure]_vars

\* an array body whose elements are a plain object, a response, a number and a
\* request was read: the response and the request were forwarded, the send goes on
C15_Witness ==
    /\ strategy = "http-only" /\ ~IsEventStream(serverMsgs.ctype)
    /\ FirstReceived
    /\ FirstUnit.json = <<RawLine(JsonText(JsonList(
                             <<PlainDict, PingResponse, JsonScalar("int"), PingRequest>>)))>>
    /\ Len(accepted) = 2
    /\ accepted[1].v = PingResponse /\ accepted[2].v = PingRequest
    /\ selPc = "hs_drain"

\* ---- the event-stream parser: an open event-stream transport whose remote
\* side writes a line sequence in two chunks, then ends the stream
PLines ==
    {BlankLine, CommentLine, EventLine("endpoint"), EventLine(""),
     DataLine(JsonText(PingResponse)),
     DataLine(UrlText([scheme |-> "", netloc |-> "", path |-> "/messages"])),
     DataLine(EmptyText), RawLine(OtherText)}

PLineSeqs == UNION {[1..n -> PLines] : n \in 0..MaxLines}

PInit ==
    \E lines \in PLineSeqs :
        LET c == Len(lines) \div 2
        IN  StartedInit("sse-only",
                        ServerScript("application/json",
                                     <<Unit(SubSeq(lines, 1, c), <<>>, TRUE),
                                       Unit(SubSeq(lines, c + 1, Len(lines)), <<>>, TRUE)>>))

PNext ==
    \/ \E k \in 1..Len(runner) : SseStreamMessage(k)
    \/ \E k \in 1..Len(runner) : SseStreamEnd(k)

PSpec == PInit /\ [][PNext]_vars

\* every line the remote side writes on the stream
StreamLines == serverMsgs.units[1].sse \o serverMsgs.units[2].sse

\* the places where a block ends: the blank lines and the end of the stream
FlushPoints(lines) ==
    {p \in 1..(Len(lines) + 1) : p = Len(lines) + 1 \/ lines[p] = BlankLine}

\* the block that ends at flush point p: the lines after the previous blank line
BlockAt(lines, p) ==
    LET before == {q \in FlushPoints(lines) : q < p}
        start == IF before = {} THEN 1
                 ELSE 1 + CHOOSE q \in before : \A r \in before : r <= q
    IN  SubSeq(lines, start, p - 1)

\* the data lines of a block, in order, and the name its last `event:` line gives
BlockData(b) ==
    LET d == SelectSeq(b, LAMBDA l : l.f = "data") IN [i \in 1..Len(d) |-> d[i].text]
BlockName(b) ==
    LET e == SelectSeq(b, LAMBDA l : l.f = "event")
    IN  IF e = <<>> \/ e[Len(e)].name = "" THEN "message" ELSE e[Len(e)].name

RECURSIVE EventsPerBlock(_, _)
\* one event for every non-empty block, from flush point p on
EventsPerBlock(lines, p) ==
    IF p > Len(lines) + 1 THEN <<>>
    ELSE LET b == BlockAt(lines, p)
         IN  (IF p \in FlushPoints(lines) /\ b # <<>>
              THEN <<SseEvent(BlockName(b), BlockData(b))>> ELSE <<>>)
             \o EventsPerBlock(lines, p + 1)

RECURSIVE EventsPerDataBlock(_, _)
\* one event for every block that holds a data line, from flush point p on
EventsPerDataBlock(lines, p) ==
    IF p > Len(lines) + 1 THEN <<>>
    ELSE LET b == BlockAt(lines, p)
         IN  (IF p \in FlushPoints(lines) /\ BlockData(b) # <<>>
              THEN <<SseEvent(BlockName(b), BlockData(b))>> ELSE <<>>)
             \o EventsPerDataBlock(lines, p + 1)

\* the payloads of the "message" events among evs that decode, as messages
MessagesOf(evs) ==
    LET m == SelectSeq(evs, LAMBDA e : e.event = "message" /\ JsonLoads(e.data).ok)
    IN  [i \in 1..Len(m) |-> Msg(i, JsonLoads(m[i].data).obj)]

\* the receive loop has read the stream to its end
StreamRead ==
    /\ serverMsgs.sent = Len(serverMsgs.units)
    /\ runner[1].pc # "stream" /\ runner[1].exc = "none"

\* C18 (as stated): the parser yields, in stream order, exactly one event per
\* blank-line-delimited block, with the block's data lines joined by a newline
\* and the block's event name (default "message", reset after every blank
\* line), and flushes a pending block at the end of the stream.
C18_OneEventPerBlock ==
    /\ IterSseEvents(StreamLines) = EventsPerBlock(StreamLines, 1)
    /\ StreamRead => accepted = MessagesOf(EventsPerBlock(StreamLines, 1))

\* C18 (amended): the parser yields, in stream order, exactly one event per
\* blank-line-delimited block that holds at least one data line (a block of
\* comments, of an `event:` line alone or of other fields yields nothing), with
\* the block's data lines joined by a newline and the block's event name
\* (default "message", reset after every blank line), and flushes a pending
\* block at the end of the stream.
C18_OneEventPerDataBlock ==
    /\ IterSseEvents(StreamLines) = EventsPerDataBlock(StreamLines, 1)
    /\ StreamRead => accepted = MessagesOf(EventsPerDataBlock(StreamLines, 1))

\* an `endpoint` block followed by an unnamed data block was read: the
\* endpoint was set and the data was forwarded as a message
C18_Witness ==
    /\ StreamLines = <<EventLine("endpoint"),
                       DataLine(UrlText([scheme |-> "", netloc |-> "", path |-> "/messages"])),
                       BlankLine, DataLine(JsonText(PingResponse)), BlankLine>>
    /\ Len(serverMsgs.units[1].sse) = 2
    /\ StreamRead
    /\ wire[1].ep = [BaseUrl EXCEPT !.path = "/messages"]
    /\ accepted = <<Msg(1, PingResponse)>>

\* ---- end to end over the request transport: a started proxy under strategy
\* http-only whose remote side answers with `Content-Type: application/json`
\* and writes, per unit, the object {"jsonrpc":"2.0","id":1,"result":{}} with
\* no newline after it; a body of one unit is that object, a body of several
\* is not JSON
ObjectBody == Unit(<<>>, <<RawLine(JsonText(PingResponse))>>, FALSE)

EInit ==
    StartedInit("http-only",
                ServerScript("application/json", [i \in 1..MaxLocal |-> ObjectBody]))

ENext ==
    \/ L2RRead
    \/ L2REof
    \/ HttpPostDone
    \/ HttpDrain
    \/ HttpSleepWake
    \/ HttpSesCloseWake
    \/ R2LGet
    \/ R2LFlushed
    \/ R2LCancelled
    \/ MainPumpDone
    \/ MainCloseSes
    \/ MainCloseGather
    \/ MainGather
    \/ \E k \in 1..Len(runner) : HttpRunnerWake(k)

ESpec == EInit /\ [][ENext]_vars

\* the body of the response being drained ended in this step, and it held
\* exactly one object: nothing was forwarded or read before the one unit
BodyWithOneObjectEnds ==
    /\ selPc = "hs_drain" /\ selPc' # "hs_drain"
    /\ l2rPc' = "read"
    /\ serverMsgs' = serverMsgs
    /\ wire[active].buf = JsonText(PingResponse)

\* message m of the remote side occurs exactly once in the sequence q
OccursOnce(q, m) == Cardinality({i \in 1..Len(q) : q[i] = m}) = 1

\* C19: a request sent over the request transport and answered with success
\* status, Content-Type application/json and a body holding one valid response
\* object results in exactly that object being written to the local output,
\* exactly once: the object is accepted as it is when the body ends, nothing is
\* ever written twice, and when run_proxy returns the object has been written.
C19_ResponseWrittenExactlyOnce ==
    /\ [][BodyWithOneObjectEnds
            => \E m \in {Msg(arrived', PingResponse)} :
                  /\ OccursOnce(accepted', m)
                  /\ OccursOnce(out' \o queue', m)]_vars
    /\ [](\A i, j \in 1..Len(out) : out[i] = out[j] => i = j)
    /\ [](mainPc = "done" => \A i \in 1..Len(accepted) : OccursOnce(out, accepted[i]))

\* ---- RemoteTransport.close as run_proxy calls it
\* close was requested on the selector
CloseRequested == selClosed

\* the start task k takes the first step of start() in this step
StartRuns(k) == runner[k].pc = "new" /\ runner'[k].pc # "new"

\* start() of a wire transport opened a session or issued its GET in this step
StartOpens(k) ==
    \/ wire'[runner[k].tr].session # wire[runner[k].tr].session
    \/ wire'[runner[k].tr].gets # wire[runner[k].tr].gets

\* RemoteTransport.close has returned to run_proxy
CloseReturned == mainPc \in {"gather", "done"}

\* C20: selector close is idempotent and terminal: once close was requested the
\* selector stays closed, the first close closes the active transport and
\* awaits its start task, no switch replaces the active transport, no wire
\* transport is constructed and none is started, also when a switch or a
\* fallback-triggering send is in flight; and when close returns every wire
\* transport the selector ever constructed is closed.
C20_CloseIdempotentAndTerminal ==
    /\ [][CloseRequested
            => (/\ selClosed'
                /\ active' = active
                /\ Len(wire') = Len(wire)
                /\ Len(runner') = Len(runner))]_vars
    /\ [][(~CloseRequested /\ selClosed') => wire'[active].closed]_vars
    /\ [][CloseRequested
            => \A k \in 1..Len(runner) : StartRuns(k) => ~StartOpens(k)]_vars
    /\ [](CloseReturned
            => (/\ \A t \in 1..Len(wire) : wire[t].closed
                /\ closeTask # 0 => RunnerDone(runner[closeTask])))

\* ---- one switch, one open transport
\* _switch_to frames that hold the switch mutex
SwitchesInBody ==
    {i \in 1..Len(stk) : stk[i] = "sw" /\ ~(i = Len(stk) /\ selPc = "sw_lock")}

\* wire transports that are not closed, and wire transports that hold a session
OpenWires == {t \in 1..Len(wire) : ~wire[t].closed}
SessionWires == {t \in 1..Len(wire) : wire[t].session = "open"}

\* C21: at most one _switch_to holds the switch mutex and at most one wire
\* transport is open at any time: when _switch_to constructs the new transport
\* the old one is closed, holds no session, and every start task created so
\* far has finished, so an open event-stream transport and an open request
\* transport never coexist.
C21_OneSwitchOneOpenTransport ==
    /\ [](Cardinality(SwitchesInBody) <= 1)
    /\ [](Cardinality(OpenWires) <= 1)
    /\ [](Cardinality(SessionWires) <= 1)
    /\ [][Len(wire') > Len(wire)
            => (/\ \A t \in 1..Len(wire) : wire[t].closed /\ wire[t].session # "open"
                /\ \A k \in 1..Len(runner) : RunnerDone(runner[k])
                /\ Len(wire') = Len(wire) + 1)]_vars

\* a switch has replaced an event-stream transport whose stream was open by a
\* request transport that is now open
C21_Witness ==
    /\ Len(wire) = 2
    /\ wire[1].kind = "sse" /\ wire[1].gets = 1 /\ wire[1].started /\ wire[1].closed
    /\ wire[2].kind = "http" /\ wire[2].session = "open" /\ ~wire[2].closed
    /\ active = 2
    /\ snd.switches = 1

\* ---- the remote->local pump draining the queue
\* an event stream that carries up to MaxDrain events and then ends
MaxDrain == 3

DrainUnits == {MessageUnit(PingResponse), MessageUnit(PingRequest), MessageUnit(PlainDict)}

DInit ==
    \E n \in 1..MaxDrain : \E us \in [1..n -> DrainUnits] :
        StartedInit("sse-only", ServerScript("text/event-stream", us))

DNext ==
    \/ \E k \in 1..Len(runner) : SseStreamMessage(k)
    \/ \E k \in 1..Len(runner) : SseStreamEnd(k)
    \/ \E k \in 1..Len(runner) : RunnerCloseWake(k)
    \/ R2LGet
    \/ R2LFlushed
    \/ R2LExit

\* the flush of a written message completes and the 0.25 s poll comes round
DSpec ==
    DInit /\ [][DNext]_vars /\ WF_vars(R2LGet) /\ WF_vars(R2LFlushed) /\ WF_vars(R2LExit)

\* the pump returns without having been cancelled
PumpEndsByItself == r2lPc # "done" /\ r2lPc' = "done" /\ "r2l" \notin cancelReq

Written(m) == \E j \in 1..Len(out) : out[j] = m

\* C22: the remote->local pump ends by itself only with the remote side marked
\* closed and the queue empty; once the remote side is marked closed, every
\* message still queued is eventually written and the pump then ends (the
\* flushes complete and the pump is not cancelled).
C22_PumpDrainsThenTerminates ==
    /\ [][PumpEndsByItself => (remoteClosed /\ queue = <<>> /\ queue' = <<>>)]_vars
    /\ \A i \in 1..MaxDrain :
          (remoteClosed /\ Len(accepted) >= i)
              ~> (Len(accepted) >= i /\ Written(accepted[i]))
    /\ remoteClosed ~> (r2lPc = "done" /\ queue = <<>> /\ out = accepted)

\* the stream ended with two messages still queued, and the pump has written
\* both and returned
C22_Witness ==
    /\ remoteClosed
    /\ r2lPc = "done"
    /\ Len(out) >= 2
    /\ out = accepted
    /\ serverMsgs.sent = Len(serverMsgs.units)

\* ---- the event-stream GET answered with a non-success status
\* start task k ended before its stream opened, on an HTTP status
StatusFailed(k) == runner[k].pre /\ runner[k].exc \in {"http404", "http500"}

PostsOn(t) == {i \in 1..Len(posts) : posts[i][2] = t}

\* C23: when the initial GET of an event-stream transport is answered with a
\* non-success status, the error callback is called once with it and start
\* raises it, one GET was issued and no further one is, the stream is never
\* read (no message callback), the transport is closed, and no send ever POSTs
\* on it.
C23_GetStatusFailureIsFatal ==
    /\ [](\A k \in 1..Len(runner) : StatusFailed(k) =>
            (/\ runner[k].pc \in {"closing", "done"}
             /\ runner[k].onerr = 1
             /\ wire[runner[k].tr].kind = "sse"
             /\ wire[runner[k].tr].gets = 1
             /\ wire[runner[k].tr].closed
             /\ ~runner[k].late => wire[runner[k].tr].session # "open"
             /\ wire[runner[k].tr].ep = NoUrl
             /\ PostsOn(runner[k].tr) = {}
             /\ active = runner[k].tr
                   => selPc \notin {"w_started", "ws_endpoint", "ws_post"}))
    /\ [][\A k \in 1..Len(runner) : StatusFailed(k) =>
            (/\ StatusFailed(k)'
             /\ runner'[k].exc = runner[k].exc
             /\ runner'[k].pc # "stream"
             /\ wire'[runner[k].tr].gets = wire[runner[k].tr].gets)]_vars

\* the GET was answered 404, start has ended with that error, and a message
\* was handed to the selector afterwards
C23_Witness ==
    \E k \in 1..Len(runner) :
        /\ StatusFailed(k)
        /\ runner[k].exc = "http404"
        /\ runner[k].pc = "done"
        /\ localRead >= 1
        /\ l2rPc # "read"

\* ---- start with fallback
\* during start_background the first transport's start failed before its
\* stream opened, _switch_to installed a transport of the other kind, and that
\* one is started and open
FallbackStarted ==
    /\ localRead = 0
    /\ Len(wire) >= 2
    /\ runner[1].pre
    /\ wire[1].closed
    /\ wire[active].kind # wire[1].kind
    /\ wire[active].started /\ ~wire[active].closed

\* C24: when starting with fallback has replaced the transport whose start
\* failed by an open transport of the other kind, the close callback of the
\* failed transport has not reached run_proxy: the remote-closed mark is unset,
\* and start_background returns with it unset.
C24_FallbackStartLeavesRemoteOpen ==
    /\ [](FallbackStarted => ~remoteClosed)
    /\ [][(FallbackStarted /\ mainPc = "start_bg" /\ mainPc' # "start_bg")
            => (mainPc' = "wait" /\ ~remoteClosed')]_vars

\* ---- retries of the request transport
\* the send in flight is in the request transport and its current attempt has
\* handed a response message to the message callback
AttemptForwarded ==
    /\ l2rPc = "send"
    /\ wire[snd.wt].kind = "http"
    /\ snd.fwd = 1

\* the message of the send in flight is POSTed in this step
Reposted ==
    /\ Len(posts') = Len(posts) + 1
    /\ posts'[Len(posts')][1] = snd.msg
    /\ posts'[Len(posts')][2] = snd.wt

\* C25: within one send of the request transport a retry follows only an
\* attempt that forwarded nothing: once an attempt has forwarded a response
\* message, the send neither sleeps for a retry nor POSTs the message again,
\* also when the connection fails while the body is still being read.
C25_NoRetryAfterForwarding ==
    [][AttemptForwarded => (selPc' # "hs_sleep" /\ ~Reposted)]_vars

\* ---- shutdown and the queue
\* run_proxy has returned
ProxyStopped == mainPc = "done"

\* C26: when run_proxy returns, every message that was accepted into the queue
\* has been written to the local output and the queue is empty, also when the
\* local->remote pump ended first, right after a send whose responses were
\* enqueued: shutdown discards no queued message.
C26_ShutdownWritesQueued ==
    ProxyStopped =>
        (/\ queue = <<>>
         /\ \A i \in 1..Len(accepted) : Written(accepted[i]))
====
